---- MODULE Spec2Model ----
(***************************************************************************)
(* Mycelia (src/src/mycelia.cpp): the application object that owns the     *)
(* live graph g, the per-frame snapshot gCopy, the three background        *)
(* workers (staticLayout, dynamicLayout, edgeBundler), the render cache    *)
(* version and the node selection.                                         *)
(*                                                                         *)
(* Every handler of Mycelia is a function from the object's fields (a      *)
(* record m) to the fields after the call, so that a handler that calls    *)
(* another handler is the composition of the two.  The actions apply one   *)
(* handler to the current fields.                                          *)
(*                                                                         *)
(* Lengths are integers.  nodeRadius is kept in units of 1/NodeRadiusDiv   *)
(* of a position unit, so that  nodeRadius = radius / 80  is exact.        *)
(* Arithmetic is exact: the rounding of the C++ float type is not          *)
(* modelled.                                                               *)
(***************************************************************************)
EXTENDS Integers, Sequences, FiniteSets, TLC

VARIABLES
    g,                  \* Mycelia::g, the live graph
    gCopy,              \* Mycelia::gCopy, the snapshot the renderer reads
    layout,             \* Mycelia::layout, "staticLayout" or "dynamicLayout"
    running,            \* per worker object: TRUE iff it is not stopped
    threads,            \* per worker object: its worker threads alive
    skipLayout,         \* Mycelia::skipLayout
    toggle,             \* state of the menu toggle buttons
    nodeRadius,         \* Mycelia::nodeRadius, in 1/NodeRadiusDiv units
    showingLogo,        \* Mycelia::showingLogo
    selectedNode,       \* Mycelia::selectedNode
    previousNode,       \* Mycelia::previousNode
    predecessorVector,  \* Mycelia::predecessorVector, entry i at index i+1
    graphListVersion,   \* MyceliaDataItem::graphListVersion
    graphList,          \* MyceliaDataItem::graphList: the nodes baked into it
    lockHolder,         \* who holds g's lock: "none", "frame" or "worker"
    pcFrame,            \* position of the main thread inside frame() or
                        \* resetLayout()
    pcWorker,           \* position of the background worker inside a mutation
    pending,            \* the mutation the worker is committing
    committed,          \* history: g after the last whole mutation
    snapshots,          \* history: copies made by the last call of frame()
    lastOp,             \* history: the handler that ran last
    lastArg,            \* history: its argument
    out                 \* history: what the last handler returned or drew

vars == <<g, gCopy, layout, running, threads, skipLayout, toggle, nodeRadius,
          showingLogo, selectedNode, previousNode, predecessorVector,
          graphListVersion, graphList, lockHolder, pcFrame, pcWorker, pending,
          committed, snapshots, lastOp, lastArg, out>>

(***************************************************************************)
(* Bounds of the model.                                                    *)
(***************************************************************************)
MaxNodes == 2
MaxVersion == 8
MaxPickNodes == 2
MaxDrawNodes == 3
MaxEdges == 3
MaxMutations == 4
MaxTextureEdits == 5

(***************************************************************************)
(* Program constants.                                                      *)
(***************************************************************************)
SELECTION_NONE == -1
NodeRadiusDiv == 80
ConeAngleInv == 200

Workers == {"staticLayout", "dynamicLayout", "edgeBundler"}
Buttons == {"bundleButton", "componentButton", "shortestPathButton",
            "spanningTreeButton", "staticButton"}

(***************************************************************************)
(* Vrui::Point / Vrui::Vector arithmetic.                                  *)
(***************************************************************************)
Origin == <<0, 0, 0>>
VSub(p, q) == <<p[1] - q[1], p[2] - q[2], p[3] - q[3]>>
VAdd(p, q) == <<p[1] + q[1], p[2] + q[2], p[3] + q[3]>>
VDot(p, q) == p[1] * q[1] + p[2] * q[2] + p[3] * q[3]
VCross(p, q) == <<p[2] * q[3] - p[3] * q[2],
                  p[3] * q[1] - p[1] * q[3],
                  p[1] * q[2] - p[2] * q[1]>>
VSqr(v) == VDot(v, v)
SqrDist(p, q) == VSqr(VSub(p, q))
Abs(x) == IF x < 0 THEN -x ELSE x
Max2(a, b) == IF a < b THEN b ELSE a

SeqSet(s) == {s[i] : i \in DOMAIN s}

(***************************************************************************)
(* Graph (graph.hpp is not part of the sources; its operations follow the  *)
(* specification's GraphStore contract).  nodes is the enumeration order   *)
(* of getNodes(), edges the insertion-ordered edge list.                   *)
(***************************************************************************)
EmptyPos == [k \in {} |-> Origin]
NoTypes == [k \in {} |-> "shape"]

\* Node types, and the texture node modes: in "align" an image node always
\* faces the camera.
NodeTypes == {"shape", "image"}
TextureNodeModes == {"rotate", "align"}

EmptyGraph == [nodes |-> <<>>, pos |-> EmptyPos, types |-> NoTypes,
               mode |-> "rotate", edges |-> <<>>, version |-> 0]

getNodeType(gr, n) == gr.types[n]
getTextureNodeMode(gr) == gr.mode

NodeSet(gr) == SeqSet(gr.nodes)
getNodeCount(gr) == Len(gr.nodes)
isValidNode(gr, n) == n \in NodeSet(gr)
getNodePosition(gr, n) == gr.pos[n]

\* Graph::update(): marks the graph as changed for the renderer.
update(gr) == [gr EXCEPT !.version = @ + 1]

\* Graph::clear()
clear(gr) == [nodes |-> <<>>, pos |-> EmptyPos, types |-> NoTypes,
              mode |-> gr.mode, edges |-> <<>>, version |-> gr.version + 1]

\* Graph::setComponents()
setComponents(gr) == update(gr)

\* Graph::clearVelocities()
clearVelocities(gr) == gr

FreeId(gr) == CHOOSE i \in 0..Len(gr.nodes) :
                 /\ i \notin NodeSet(gr)
                 /\ \A j \in 0..(i - 1) : j \in NodeSet(gr)

\* Graph::addNode(position): the lowest free slot is reused.
addNodeOfType(gr, p, type) ==
    LET n == FreeId(gr) IN
    [gr EXCEPT !.nodes = Append(@, n),
               !.pos = [k \in NodeSet(gr) \cup {n} |->
                           IF k = n THEN p ELSE gr.pos[k]],
               !.types = [k \in NodeSet(gr) \cup {n} |->
                             IF k = n THEN type ELSE gr.types[k]],
               !.version = @ + 1]

addNode(gr, p) == addNodeOfType(gr, p, "shape")

\* Graph::setTextureNodeMode(mode)
setTextureNodeMode(gr, mode) == [gr EXCEPT !.mode = mode, !.version = @ + 1]

\* Graph::addEdge(source, target)
addEdge(gr, s, t) ==
    [gr EXCEPT !.edges = Append(@, [source |-> s, target |-> t]),
               !.version = @ + 1]

\* Graph::deleteNode(node): the node and its incident edges go.
deleteNode(gr, n) ==
    LET KeepN(k) == k # n
        KeepE(e) == e.source # n /\ e.target # n
    IN [nodes |-> SelectSeq(gr.nodes, KeepN),
        pos |-> [k \in NodeSet(gr) \ {n} |-> gr.pos[k]],
        types |-> [k \in NodeSet(gr) \ {n} |-> gr.types[k]],
        mode |-> gr.mode,
        edges |-> SelectSeq(gr.edges, KeepE),
        version |-> gr.version + 1]

\* Graph::setNodePosition for every node at once (one layout iteration, or
\* randomizePositions): newPos gives the positions written.
setPositions(gr, newPos) == [gr EXCEPT !.pos = newPos, !.version = @ + 1]

\* Graph::moveNodes(shift)
moveNodes(gr, shift) ==
    [gr EXCEPT !.pos = [k \in DOMAIN gr.pos |-> VAdd(gr.pos[k], shift)],
               !.version = @ + 1]

\* The single writes a mutator makes to the graph while it holds the lock,
\* as the graphs they leave: the last one is the whole mutation.
RECURSIVE positionWrites(_, _, _)
positionWrites(gr, newPos, nodes) ==
    IF nodes = <<>> THEN <<update(gr)>>
    ELSE LET next == [gr EXCEPT !.pos[Head(nodes)] = newPos[Head(nodes)]]
         IN <<next>> \o positionWrites(next, newPos, Tail(nodes))

deleteNodeWrites(gr, n, nodeFirst) ==
    LET whole == deleteNode(gr, n)
    IN IF nodeFirst
       THEN <<[gr EXCEPT !.nodes = whole.nodes, !.pos = whole.pos,
                         !.types = whole.types], whole>>
       ELSE <<[gr EXCEPT !.edges = whole.edges], whole>>

\* Whether a mutator's lock() returns, given who holds the lock.
MutatorMayLock(holder) == holder = "none"

\* Graph::locate(): centre and radius of a sphere around all nodes; the
\* degenerate sphere (origin, 0) for the empty graph.
locate(gr) ==
    IF gr.nodes = <<>> THEN <<Origin, 0>>
    ELSE LET ns == NodeSet(gr)
             Lo(c) == CHOOSE v \in {gr.pos[k][c] : k \in ns} :
                          \A k \in ns : v <= gr.pos[k][c]
             Hi(c) == CHOOSE v \in {gr.pos[k][c] : k \in ns} :
                          \A k \in ns : v >= gr.pos[k][c]
             Mid(c) == (Lo(c) + Hi(c)) \div 2
             center == <<Mid(1), Mid(2), Mid(3)>>
             Far(k) == Max2(Abs(gr.pos[k][1] - center[1]),
                            Max2(Abs(gr.pos[k][2] - center[2]),
                                 Abs(gr.pos[k][3] - center[3])))
             radius == CHOOSE r \in {Far(k) : k \in ns} :
                          \A k \in ns : r >= Far(k)
         IN <<center, radius>>

(***************************************************************************)
(* The fields of the Mycelia object as one record.                         *)
(***************************************************************************)
This == [g |-> g, gCopy |-> gCopy, layout |-> layout, running |-> running,
         threads |-> threads,
         skipLayout |-> skipLayout, toggle |-> toggle,
         nodeRadius |-> nodeRadius, showingLogo |-> showingLogo,
         selectedNode |-> selectedNode, previousNode |-> previousNode,
         predecessorVector |-> predecessorVector,
         graphListVersion |-> graphListVersion, graphList |-> graphList]

Becomes(m) ==
    /\ g' = m.g
    /\ gCopy' = m.gCopy
    /\ layout' = m.layout
    /\ running' = m.running
    /\ threads' = m.threads
    /\ skipLayout' = m.skipLayout
    /\ toggle' = m.toggle
    /\ nodeRadius' = m.nodeRadius
    /\ showingLogo' = m.showingLogo
    /\ selectedNode' = m.selectedNode
    /\ previousNode' = m.previousNode
    /\ predecessorVector' = m.predecessorVector
    /\ graphListVersion' = m.graphListVersion
    /\ graphList' = m.graphList

Ran(op, arg, result) ==
    /\ lastOp' = op
    /\ lastArg' = arg
    /\ out' = result

(***************************************************************************)
(* The worker objects (layout/*.hpp are not part of the sources): start()  *)
(* is idempotent and leaves the worker Running, stop() returns with the    *)
(* worker Stopped, isDynamic() tells the two layouts apart.                *)
(***************************************************************************)
\* start() that spawns a thread whether or not the worker is Running.
startAgain(m, w) ==
    [m EXCEPT !.running[w] = TRUE, !.threads[w] = @ + 1]

start(m, w) ==
    IF m.running[w] THEN m
    ELSE [m EXCEPT !.running[w] = TRUE, !.threads[w] = @ + 1]

stop(m, w) == [m EXCEPT !.running[w] = FALSE, !.threads[w] = 0]
isStopped(m, w) == ~m.running[w]

\* A static layout that asks for the recentring while it still counts as
\* Running.
convergeRunning(m, w) == m

\* The static layout has converged: it leaves its loop and is Stopped.
converge(m, w) == [m EXCEPT !.running[w] = FALSE]

\* Whether a stop() of worker w called on w's own thread returns: it waits
\* for w to have left its loop.
stopReturnsOnOwnThread(m, w) == ~m.running[w]
isDynamic(w) == w = "dynamicLayout"

\* GLMotif::ToggleButton::setToggle: sets the state, calls no callback.
setToggle(m, b, v) == [m EXCEPT !.toggle[b] = v]

(***************************************************************************)
(* Layout handlers of Mycelia.                                             *)
(***************************************************************************)
startLayout(m) == start(m, m.layout)

\* stopLayout that stops the current layout only.
stopLayoutCurrentOnly(m) == stop(m, m.layout)

stopLayout(m) == stop(stop(stop(m, "edgeBundler"), "staticLayout"),
                      "dynamicLayout")

\* resumeLayout that starts a static layout as well.
resumeLayoutAny(m) == IF ~m.skipLayout THEN startLayout(m) ELSE m

resumeLayout(m) ==
    IF isDynamic(m.layout) /\ ~m.skipLayout THEN startLayout(m) ELSE m

layoutIsStopped(m) == isStopped(m, m.layout)

setLayoutType(m, type) ==
    IF type = "LAYOUT_DYNAMIC"
    THEN LET m1 == setToggle(stop(m, "edgeBundler"), "bundleButton", FALSE)
             m2 == setToggle(m1, "staticButton", FALSE)
             m3 == IF m2.layout # "dynamicLayout" THEN stopLayout(m2) ELSE m2
         IN [m3 EXCEPT !.layout = "dynamicLayout"]
    ELSE IF type = "LAYOUT_STATIC"
    THEN LET m1 == setToggle(m, "staticButton", TRUE)
             m2 == IF m1.layout # "staticLayout" THEN stopLayout(m1) ELSE m1
         IN [m2 EXCEPT !.layout = "staticLayout"]
    ELSE m

setSkipLayout(m, b) == [m EXCEPT !.skipLayout = b]

resetNavigationCallback(m) ==
    LET layoutWasRunning == ~layoutIsStopped(m)
        m1 == stopLayout(m)
        p == locate(m1.g)
        center == p[1]
        radius == p[2]
        shift == <<-center[1], -center[2], -center[3]>>
        m2 == [m1 EXCEPT !.g = update(moveNodes(m1.g, shift)),
                         !.nodeRadius = radius]
    IN IF layoutWasRunning THEN resumeLayout(m2) ELSE m2

\* The radius resetNavigationCallback hands to
\* Vrui::setNavigationTransformation, read off the state it leaves:
\* nodeRadius is that radius in units of 1 / NodeRadiusDiv.
navigationRadius(m) == m.nodeRadius

\* cbData->set is the new state of bundleButton, which the button took
\* before it called the callback.
bundleCallback(m, set) ==
    IF getNodeCount(m.g) = 0 THEN m
    ELSE IF set THEN start(stopLayout(m), "edgeBundler")
    ELSE LET m1 == stop(m, "edgeBundler")
         IN resumeLayout([m1 EXCEPT !.g = update(m1.g)])

clearCallback(m) ==
    LET m1 == [m EXCEPT !.g = clear(m.g)]
        m2 == setToggle(m1, "bundleButton", FALSE)
        m3 == setToggle(m2, "componentButton", FALSE)
        m4 == setToggle(m3, "shortestPathButton", FALSE)
    IN setToggle(m4, "spanningTreeButton", FALSE)

\* newPos: the positions randomizePositions(100) draws.
\* resetLayout that goes on without stopping the workers.
resetLayoutNoStop(m) ==
    LET m1 == setToggle(m, "bundleButton", FALSE)
    IN [m1 EXCEPT !.layout = IF m1.toggle["staticButton"]
                             THEN "staticLayout" ELSE "dynamicLayout"]

\* resetLayout up to its test of skipLayout and the node count.
resetLayoutStop(m) ==
    LET m1 == setToggle(stopLayout(m), "bundleButton", FALSE)
    IN IF m1.toggle["staticButton"]
       THEN setLayoutType(m1, "LAYOUT_STATIC")
       ELSE setLayoutType(m1, "LAYOUT_DYNAMIC")

\* The test without skipLayout.
resetLayoutAbortsWhenEmpty(m) == getNodeCount(m.g) = 0

\* Whether resetLayout returns after that test.
resetLayoutAborts(m) == m.skipLayout \/ getNodeCount(m.g) = 0

\* g->randomizePositions(100); g->clearVelocities(): newPos are the
\* positions drawn.
resetLayoutRandomize(m, newPos) ==
    [m EXCEPT !.g = clearVelocities(setPositions(m.g, newPos))]

\* The rest of resetLayout: the recentring when watch, and the start.
resetLayoutStart(m, watch) ==
    startLayout(IF watch THEN resetNavigationCallback(m) ELSE m)

resetLayout(m, watch, newPos) ==
    LET m2 == resetLayoutStop(m)
    IN IF resetLayoutAborts(m2) THEN m2
       ELSE resetLayoutStart(resetLayoutRandomize(m2, newPos), watch)

resetLayoutCallback(m, newPos) == resetLayout(m, FALSE, newPos)

componentCallback(m, set, newPos) ==
    LET m1 == IF set THEN [m EXCEPT !.g = setComponents(m.g)] ELSE m
    IN resetLayoutCallback(m1, newPos)

\* GraphGenerator::generate(): count nodes at the positions genPos, joined
\* by a path of edges when withEdges.
RECURSIVE generate(_, _, _, _)
generate(gr, count, genPos, withEdges) ==
    IF count = 0 THEN gr
    ELSE LET g1 == generate(gr, count - 1, genPos, withEdges)
             g2 == addNode(g1, genPos[count - 1])
         IN IF withEdges /\ count >= 2
            THEN addEdge(g2, count - 2, count - 1) ELSE g2

generatorCallback(m, count, genPos, withEdges) ==
    LET m1 == setLayoutType([m EXCEPT !.g = clear(m.g)], "LAYOUT_DYNAMIC")
    IN resumeLayout([m1 EXCEPT !.g = generate(m1.g, count, genPos, withEdges)])


(***************************************************************************)
(* Node selection.                                                         *)
(***************************************************************************)
\* The number of node slots of gr: one more than its highest node id.
SlotCount(gr) ==
    IF gr.nodes = <<>> THEN 0
    ELSE 1 + (CHOOSE n \in NodeSet(gr) : \A k \in NodeSet(gr) : k <= n)

RECURSIVE PredRoot(_, _, _)
PredRoot(p, i, fuel) ==
    IF p[i + 1] = i THEN TRUE
    ELSE IF fuel = 0 THEN FALSE
    ELSE PredRoot(p, p[i + 1], fuel - 1)

\* What Graph::getShortestPath() and Graph::getSpanningTree() may return
\* for gr: one entry per node slot, each node's chain of predecessors
\* ending in a root that is its own predecessor.
PredecessorArrays(gr) ==
    LET n == SlotCount(gr)
    IN {p \in [1..n -> 0..(n - 1)] : \A i \in 0..(n - 1) : PredRoot(p, i, n)}

\* Graph::getShortestPath(): the paths to previousNode, which the graph
\* reads through getPreviousNode() at the time of the call; pred holds the
\* predecessors of the other nodes.
getShortestPath(m, pred) ==
    IF m.previousNode + 1 \in DOMAIN pred
    THEN [pred EXCEPT ![m.previousNode + 1] = m.previousNode]
    ELSE pred

\* pred: the predecessors g->getShortestPath() finds.
shortestPathCallback(m, pred) ==
    IF m.toggle["shortestPathButton"]
    THEN IF m.previousNode # SELECTION_NONE /\ m.selectedNode # SELECTION_NONE
         THEN [m EXCEPT !.predecessorVector = getShortestPath(m, pred)]
         ELSE setToggle(m, "shortestPathButton", FALSE)
    ELSE m

\* pred: what g->getSpanningTree() returns.
spanningTreeCallback(m, set, pred) ==
    IF set THEN [m EXCEPT !.predecessorVector = pred] ELSE m

clearSelections(m) ==
    [m EXCEPT !.previousNode = SELECTION_NONE,
              !.selectedNode = SELECTION_NONE,
              !.g = update(m.g)]

\* setSelectedNode without its isValidNode check.
setSelectedNodeUnchecked(m, node, pred) ==
    LET m1 == [m EXCEPT !.previousNode = m.selectedNode,
                        !.selectedNode = node]
        m2 == shortestPathCallback(m1, pred)
    IN [m2 EXCEPT !.g = update(m2.g)]

\* setSelectedNode that calls shortestPathCallback before it updates the
\* two selections.
setSelectedNodeStale(m, node, pred) ==
    IF ~isValidNode(m.g, node) THEN m
    ELSE LET m1 == shortestPathCallback(m, pred)
             m2 == [m1 EXCEPT !.previousNode = m.selectedNode,
                              !.selectedNode = node]
         IN [m2 EXCEPT !.g = update(m2.g)]

setSelectedNode(m, node, pred) ==
    IF ~isValidNode(m.g, node) THEN m
    ELSE LET m1 == [m EXCEPT !.previousNode = m.selectedNode,
                             !.selectedNode = node]
             m2 == shortestPathCallback(m1, pred)
         IN [m2 EXCEPT !.g = update(m2.g)]

\* selectNode reading the snapshot instead of the live graph.
PickGraphSnapshot(m) == m.gCopy

\* The graph selectNode reads.
PickGraph(m) == m.g

\* dist2 <= minDist2 where selectNode(const Vrui::Point&) has dist2 < minDist2.
CloserOrEqual(dist2, minDist2) == dist2 <= minDist2

\* dist2 < minDist2
Closer(dist2, minDist2) == dist2 < minDist2

\* The loop of selectNode(const Vrui::Point&) over the nodes still to
\* visit; minDist2 is in units of 1/NodeRadiusDiv^2.
RECURSIVE selectNodePointLoop(_, _, _, _, _)
selectNodePointLoop(gr, clickPosition, nodes, result, minDist2) ==
    IF nodes = <<>> THEN result
    ELSE LET node == Head(nodes)
             dist2 == NodeRadiusDiv * NodeRadiusDiv
                        * SqrDist(clickPosition, getNodePosition(gr, node))
         IN IF Closer(dist2, minDist2)
            THEN selectNodePointLoop(gr, clickPosition, Tail(nodes), node, dist2)
            ELSE selectNodePointLoop(gr, clickPosition, Tail(nodes), result,
                                     minDist2)

selectNodePoint(m, clickPosition) ==
    selectNodePointLoop(PickGraph(m), clickPosition, PickGraph(m).nodes,
                        SELECTION_NONE, m.nodeRadius * m.nodeRadius)

\* y2 / Math::sqr(x) <= coneAngle2 in IEEE arithmetic, coneAngle being
\* 1/ConeAngleInv: for x = 0 the quotient is NaN or +infinity and the
\* comparison is false.
InCone(y2, x) == x # 0 /\ ConeAngleInv * ConeAngleInv * y2 <= x * x

\* lambdaMin while it still holds numeric_limits<float>::max().
FloatMax == -1

\* selectNode(const Vrui::Ray&) without its test x < lambdaMin.
AnyLambda(x, lambdaMin) == TRUE

\* x < lambdaMin
LessThanLambda(x, lambdaMin) == lambdaMin = FloatMax \/ x < lambdaMin

\* The loop of selectNode(const Vrui::Ray&) over the nodes still to visit.
RECURSIVE selectNodeRayLoop(_, _, _, _, _, _)
selectNodeRayLoop(gr, origin, direction, nodes, result, lambdaMin) ==
    IF nodes = <<>> THEN result
    ELSE LET node == Head(nodes)
             sp == VSub(getNodePosition(gr, node), origin)
             x == VDot(sp, direction)
             y2 == VSqr(VCross(sp, direction))
         IN IF x >= 0 /\ LessThanLambda(x, lambdaMin) /\ InCone(y2, x)
            THEN selectNodeRayLoop(gr, origin, direction, Tail(nodes), node, x)
            ELSE selectNodeRayLoop(gr, origin, direction, Tail(nodes), result,
                                   lambdaMin)

selectNodeRay(m, origin, direction) ==
    selectNodeRayLoop(PickGraph(m), origin, direction, PickGraph(m).nodes,
                      SELECTION_NONE, FloatMax)

(***************************************************************************)
(* Rendering.  Every draw function returns what it drew and which indices  *)
(* it used: refs are the node indices it handed to gCopy, reads the        *)
(* indices at which it read predecessorVector.  Node and edge labels are   *)
(* not part of the model.                                                  *)
(***************************************************************************)
\* Graph::getNodeComponent(node) after setComponents(): the lowest node the
\* edges connect node to.  junk is what the lookup of a node that gr does
\* not hold yields.
RECURSIVE Connected(_, _)
Connected(gr, set) ==
    LET more == set \cup {e.target : e \in {x \in SeqSet(gr.edges) :
                                              x.source \in set}}
                    \cup {e.source : e \in {x \in SeqSet(gr.edges) :
                                              x.target \in set}}
    IN IF more = set THEN set ELSE Connected(gr, more)

getNodeComponent(gr, node, junk) ==
    IF ~isValidNode(gr, node) THEN junk[node]
    ELSE CHOOSE n \in Connected(gr, {node}) :
             \A k \in Connected(gr, {node}) : n <= k

isSelectedComponent(m, node, junk) ==
    IF m.toggle["componentButton"]
    THEN getNodeComponent(m.gCopy, node, junk)
            = getNodeComponent(m.gCopy, m.selectedNode, junk)
    ELSE TRUE

\* The node indices isSelectedComponent(node) hands to gCopy.
ComponentRefs(m, node) ==
    IF m.toggle["componentButton"] THEN {node, m.selectedNode} ELSE {}

\* Graph::isBidirectional(source, target)
isBidirectional(gr, s, t) ==
    /\ \E i \in DOMAIN gr.edges :
           gr.edges[i].source = s /\ gr.edges[i].target = t
    /\ \E i \in DOMAIN gr.edges :
           gr.edges[i].source = t /\ gr.edges[i].target = s

\* drawNodes(dataItem, filter): the nodes drawn, in order.
drawNodesFilter(m, junk, filter) ==
    LET Drawn(node) == /\ isSelectedComponent(m, node, junk)
                       /\ getNodeType(m.gCopy, node) # filter
    IN SelectSeq(m.gCopy.nodes, Drawn)

\* The default of the parameter filter (mycelia.hpp is not part of the
\* sources): the type of no node.
NoFilter == "none"

\* drawNodes(dataItem)
drawNodes(m, junk) == drawNodesFilter(m, junk, NoFilter)

\* Lengths along an edge are in units of 1 / (2 * NodeRadiusDiv).  The
\* length of a vector along one of the axes, as all edges of DrawGraphs are.
mag(v) == 2 * NodeRadiusDiv * (Abs(v[1]) + Abs(v[2]) + Abs(v[3]))

\* edgeOffset = nodeRadius + arrowHeight, arrowHeight = nodeRadius / 2
edgeOffset(m) == 3 * m.nodeRadius

\* drawEdge(source, target, ...): sourceOffset and targetOffset
sourceOffset(m, drawArrow, bidirectional) ==
    IF bidirectional /\ drawArrow THEN edgeOffset(m) ELSE 0

\* targetOffset of a bidirectional edge shortened by a single edgeOffset.
targetOffsetOnce(m, length, drawArrow, bidirectional) ==
    IF drawArrow THEN length - edgeOffset(m) ELSE length

targetOffset(m, length, drawArrow, bidirectional) ==
    IF bidirectional /\ drawArrow THEN length - 2 * edgeOffset(m)
    ELSE IF drawArrow THEN length - edgeOffset(m) ELSE length

\* drawEdge(source, target, ...): where along the edge the cylinder starts
\* and ends and where the arrow starts.  The translations add up: the
\* cylinder starts at sourceOffset and is targetOffset long, the arrow list
\* is called a further targetOffset along.
drawEdgeGeometry(m, source, target, drawArrow, bidirectional) ==
    LET length == mag(VSub(target, source))
        from == sourceOffset(m, drawArrow, bidirectional)
        height == targetOffset(m, length, drawArrow, bidirectional)
    IN [length |-> length, cylinderFrom |-> from,
        cylinderTo |-> from + height, arrow |-> drawArrow,
        arrowFrom |-> from + height, bidirectional |-> bidirectional]

\* drawEdge(edge, dataItem): always with an arrow.
drawEdge(m, e) ==
    drawEdgeGeometry(m, getNodePosition(m.gCopy, e.source),
                     getNodePosition(m.gCopy, e.target), TRUE,
                     isBidirectional(m.gCopy, e.source, e.target))

\* The call drawEdges makes for a segment of a bundled edge, here from one
\* end of the edge to the other.
drawEdgeSegment(m, e) ==
    drawEdgeGeometry(m, getNodePosition(m.gCopy, e.source),
                     getNodePosition(m.gCopy, e.target), FALSE, FALSE)

\* bool drawn[1000][1000]: rows and columns of the table of drawEdges.
DrawnSize == 1000

\* drawEdges looking up the table drawn in both directions.
AlreadyDrawnEitherWay(drawn, s, t) == <<s, t>> \in drawn \/ <<t, s>> \in drawn

\* Whether drawEdges skips an edge from s to t because of its table drawn,
\* which holds the pairs marked so far.
AlreadyDrawn(drawn, s, t) == <<s, t>> \in drawn

\* The loop of drawEdges over the edges from index i on: prims are the
\* primitives emitted so far, each with the edge whose material and width
\* it has, drawn the marked entries of the table, idx the entries of the
\* table read or written.
RECURSIVE drawEdgesLoop(_, _, _, _, _, _)
drawEdgesLoop(m, junk, i, drawn, prims, idx) ==
    IF i > Len(m.gCopy.edges) THEN [prims |-> prims, idx |-> idx]
    ELSE LET e == m.gCopy.edges[i]
         IN IF ~isSelectedComponent(m, e.source, junk)
            THEN drawEdgesLoop(m, junk, i + 1, drawn, prims, idx)
            ELSE IF AlreadyDrawn(drawn, e.source, e.target)
            THEN drawEdgesLoop(m, junk, i + 1, drawn, prims,
                               idx \cup {<<e.source, e.target>>})
            ELSE IF m.toggle["bundleButton"]
            THEN drawEdgesLoop(m, junk, i + 1, drawn,
                     Append(prims, [edge |-> i, source |-> e.source,
                                    target |-> e.target, bundled |-> TRUE,
                                    bidirectional |-> FALSE]),
                     idx \cup {<<e.source, e.target>>})
            ELSE drawEdgesLoop(m, junk, i + 1,
                     drawn \cup {<<e.source, e.target>>},
                     Append(prims, [edge |-> i, source |-> e.source,
                                    target |-> e.target, bundled |-> FALSE,
                                    bidirectional |->
                                        isBidirectional(m.gCopy, e.source,
                                                        e.target)]),
                     idx \cup {<<e.source, e.target>>})

drawEdges(m, junk) == drawEdgesLoop(m, junk, 1, {}, <<>>, {})

\* predecessorVector[i]; junk[i] is what the read yields when i is not an
\* index of the array.
PredAt(m, i, junk) ==
    IF i \in 0..(Len(m.predecessorVector) - 1)
    THEN m.predecessorVector[i + 1] ELSE junk[i]

\* The loop of drawShortestPath from node i on, after iterations passes of
\* the loop body; it is followed for at most fuel more passes.
RECURSIVE drawShortestPathLoop(_, _, _, _, _, _, _)
drawShortestPathLoop(m, junk, i, iterations, refs, reads, fuel) ==
    IF i = m.previousNode
    THEN [refs |-> refs, reads |-> reads, iterations |-> iterations,
          finished |-> TRUE]
    ELSE IF fuel = 0
    THEN [refs |-> refs, reads |-> reads, iterations |-> iterations,
          finished |-> FALSE]
    ELSE IF i = PredAt(m, i, junk)
    THEN [refs |-> refs, reads |-> reads \cup {i},
          iterations |-> iterations + 1, finished |-> TRUE]
    ELSE drawShortestPathLoop(m, junk, PredAt(m, i, junk), iterations + 1,
                              refs \cup {i, PredAt(m, i, junk)},
                              reads \cup {i}, fuel - 1)

\* The passes of its loop the model follows drawShortestPath for: two more
\* than the array has entries.
WalkFuel(m) == Len(m.predecessorVector) + 2

\* edges: the pairs <<source, target>> drawEdge is called with, one for
\* every pass of the loop that did not break.
drawShortestPath(m, junk) ==
    LET walk == drawShortestPathLoop(m, junk, m.selectedNode, 0, {}, {},
                                     WalkFuel(m))
    IN [refs |-> walk.refs, reads |-> walk.reads,
        iterations |-> walk.iterations, finished |-> walk.finished,
        edges |-> {<<i, PredAt(m, i, junk)>> :
                      i \in {k \in walk.reads : k # PredAt(m, k, junk)}}]

drawSpanningTree(m) ==
    LET n == Len(m.predecessorVector)
    IN [refs |-> (0..(n - 1)) \cup {m.predecessorVector[i] : i \in 1..n},
        reads |-> 0..(n - 1), iterations |-> n, finished |-> TRUE,
        edges |-> {<<i - 1, m.predecessorVector[i]>> : i \in 1..n}]

NoOverlay == [refs |-> {}, reads |-> {}, iterations |-> 0, finished |-> TRUE,
              edges |-> {}]

\* buildGraphList that leaves graphListVersion as it was.
buildGraphListNoVersion(m, junk) == m

\* buildGraphList baking every visible node, whatever the mode.
buildGraphListNodesAll(m, junk) == drawNodes(m, junk)

\* The nodes buildGraphList draws into graphList.
buildGraphListNodes(m, junk) ==
    IF getTextureNodeMode(m.gCopy) = "align"
    THEN drawNodesFilter(m, junk, "image")
    ELSE drawNodes(m, junk)

\* The nodes display draws itself after it has called graphList.
displayNodes(m, junk) ==
    IF getTextureNodeMode(m.gCopy) = "align"
    THEN drawNodesFilter(m, junk, "shape")
    ELSE <<>>

\* buildGraphList(dataItem): the new fields and the node indices used.
buildGraphList(m, junk) ==
    [m EXCEPT !.graphListVersion = m.gCopy.version,
              !.graphList = buildGraphListNodes(m, junk)]

buildGraphListRefs(m, junk) ==
    UNION {ComponentRefs(m, n) : n \in NodeSet(m.gCopy)}
      \cup UNION {ComponentRefs(m, e.source) : e \in SeqSet(m.gCopy.edges)}
      \cup SeqSet(drawNodes(m, junk))
      \cup UNION {{p.source, p.target} :
                      p \in SeqSet(drawEdges(m, junk).prims)}

\* The workers whose own data buildGraphList reads: drawEdges asks the
\* edge bundler for the segments of every edge it draws bundled.
buildGraphListLive(m, junk) ==
    IF \E p \in SeqSet(drawEdges(m, junk).prims) : p.bundled
    THEN {"edgeBundler"} ELSE {}

\* Whether display rebuilds the cached geometry.
NeedsRebuild(m) == m.graphListVersion # m.gCopy.version

\* display(contextData): <<the fields after the call, what was drawn>>.
display(m, junk) ==
    IF m.showingLogo
    THEN <<m, [logo |-> TRUE, rebuilt |-> FALSE, called |-> FALSE,
               refs |-> {}, live |-> {}, listNodes |-> <<>>,
               liveNodes |-> <<>>, tree |-> NoOverlay,
               path |-> NoOverlay]>>
    ELSE LET rebuilt == NeedsRebuild(m)
             m1 == IF rebuilt THEN buildGraphList(m, junk) ELSE m
             listRefs == IF rebuilt THEN buildGraphListRefs(m, junk) ELSE {}
             tree == IF m.toggle["spanningTreeButton"]
                     THEN drawSpanningTree(m) ELSE NoOverlay
             path == IF ~m.toggle["spanningTreeButton"]
                        /\ m.toggle["shortestPathButton"]
                     THEN drawShortestPath(m, junk) ELSE NoOverlay
         IN <<m1, [logo |-> FALSE, rebuilt |-> rebuilt,
                   called |-> ~m.toggle["spanningTreeButton"],
                   refs |-> listRefs \cup tree.refs \cup path.refs,
                   live |-> IF rebuilt THEN buildGraphListLive(m, junk)
                            ELSE {},
                   listNodes |-> IF m.toggle["spanningTreeButton"] THEN <<>>
                                 ELSE m1.graphList,
                   liveNodes |-> IF m.toggle["spanningTreeButton"] THEN <<>>
                                 ELSE displayNodes(m, junk),
                   tree |-> tree, path |-> path]>>

(***************************************************************************)
(* frame(): the snapshot, then the logo switch.                            *)
(***************************************************************************)
\* frame() copying without waiting for the lock.
LockIgnored(holder) == TRUE

\* Whether g->lock() returns, given who holds the lock.
LockFree(holder) == holder = "none"

\* A copy of the nodes, edges and positions that leaves the version out.
frameCopyNoVersion(m) ==
    [m EXCEPT !.gCopy = [m.g EXCEPT !.version = m.gCopy.version]]

\* *gCopy = *g
frameCopy(m) == [m EXCEPT !.gCopy = m.g]

\* frame() without the branch that ends the logo.
frameLogoNoEnd(m) ==
    [m EXCEPT !.showingLogo = @ \/ (getNodeCount(m.gCopy) = 0)]

frameLogo(m) == [m EXCEPT !.showingLogo = (getNodeCount(m.gCopy) = 0)]

frame(m) == frameLogo(frameCopy(m))

(***************************************************************************)
(* Inputs of the model.                                                    *)
(***************************************************************************)
PosSet == {<<0, 0, 0>>, <<2, 0, 0>>}
PositionsOf(gr) == [NodeSet(gr) -> PosSet]
GenPositions(count) == [0..(count - 1) -> PosSet]

\* The positions randomizePositions draws from, none of which a layout
\* writes.
RandomPos == {<<4, 0, 0>>, <<-4, 0, 0>>}
NodeArgs == SELECTION_NONE..MaxNodes
RayDirections == {<<1, 0, 0>>, <<-1, 0, 0>>, <<0, 1, 0>>}

\* Graphs to pick in: up to MaxPickNodes nodes in every order of
\* enumeration, at positions in half units around the origin, on the x
\* axis ahead of and behind it, and next to the axis inside and outside
\* the cone.
PickPos == {<<0, 0, 0>>, <<2, 0, 0>>, <<-2, 0, 0>>, <<10, 0, 0>>,
            <<10, 1, 0>>, <<200, 1, 0>>}
PickClicks == {<<0, 0, 0>>, <<1, 0, 0>>, <<4, 0, 0>>}
PickOrigins == {<<0, 0, 0>>, <<2, 0, 0>>}
PickRadii == {0, 2 * NodeRadiusDiv}
PickOrders ==
    {s \in UNION {[1..n -> 0..(MaxPickNodes - 1)] : n \in 0..MaxPickNodes} :
        \A i, j \in DOMAIN s : i # j => s[i] # s[j]}
PickGraphs ==
    {[nodes |-> s, pos |-> p, types |-> [k \in DOMAIN p |-> "shape"],
      mode |-> "rotate", edges |-> <<>>, version |-> 2 + Len(s)] :
        s \in PickOrders, p \in UNION {[SeqSet(o) -> PickPos] : o \in PickOrders}}

\* Graphs to draw: MaxDrawNodes nodes and up to MaxEdges edges between
\* them, parallel and opposite ones included.
DrawNodeIds == 0..(MaxDrawNodes - 1)
DrawPairs == {e \in [source : DrawNodeIds, target : DrawNodeIds] :
                e.source # e.target}
DrawGraphs ==
    {[nodes |-> [i \in 1..MaxDrawNodes |-> i - 1],
      pos |-> [k \in DrawNodeIds |-> <<k, 0, 0>>],
      types |-> [k \in DrawNodeIds |-> "shape"], mode |-> "rotate",
      edges |-> es, version |-> 2 + MaxDrawNodes + Len(es)] :
        es \in UNION {[1..n -> DrawPairs] : n \in 0..MaxEdges}}
JunkRange == SELECTION_NONE..MaxNodes
IdJunk == [i \in JunkRange |-> i]

\* The indices at which display() reads what the program's state does not
\* determine: a node gCopy does not hold, looked up for its component, and
\* the indices outside predecessorVector that drawShortestPath can reach.
JunkIndices(m) ==
    IF m.showingLogo THEN {}
    ELSE (IF /\ m.toggle["componentButton"]
             /\ NeedsRebuild(m)
             /\ m.gCopy.nodes # <<>>
             /\ ~isValidNode(m.gCopy, m.selectedNode)
          THEN {m.selectedNode} ELSE {})
         \cup
         (IF /\ ~m.toggle["spanningTreeButton"]
             /\ m.toggle["shortestPathButton"]
             /\ drawShortestPath(m, IdJunk).reads
                    \ (0..(Len(m.predecessorVector) - 1)) # {}
          THEN JunkRange \ (0..(Len(m.predecessorVector) - 1)) ELSE {})

JunkFor(m) ==
    {[i \in JunkRange |-> IF i \in JunkIndices(m) THEN f[i] ELSE i] :
        f \in [JunkIndices(m) -> JunkRange]}

(***************************************************************************)
(* The state after the constructor: its last statement is                  *)
(* resetNavigationCallback(0) on the empty graph.                          *)
(***************************************************************************)
Constructed ==
    resetNavigationCallback(
        [g |-> EmptyGraph, gCopy |-> EmptyGraph, layout |-> "staticLayout",
         running |-> [w \in Workers |-> FALSE],
         threads |-> [w \in Workers |-> 0], skipLayout |-> FALSE,
         toggle |-> [b \in Buttons |-> b = "staticButton"],
         nodeRadius |-> 0, showingLogo |-> FALSE,
         selectedNode |-> SELECTION_NONE, previousNode |-> SELECTION_NONE,
         predecessorVector |-> <<>>, graphListVersion |-> 0,
         graphList |-> <<>>])

NoOut == [kind |-> "none"]

InitWith(m) ==
    /\ g = m.g
    /\ gCopy = m.gCopy
    /\ layout = m.layout
    /\ running = m.running
    /\ threads = m.threads
    /\ skipLayout = m.skipLayout
    /\ toggle = m.toggle
    /\ nodeRadius = m.nodeRadius
    /\ showingLogo = m.showingLogo
    /\ selectedNode = m.selectedNode
    /\ previousNode = m.previousNode
    /\ predecessorVector = m.predecessorVector
    /\ graphListVersion = m.graphListVersion
    /\ graphList = m.graphList
    /\ lockHolder = "none"
    /\ pcFrame = "idle"
    /\ pcWorker = "idle"
    /\ pending = <<>>
    /\ committed = m.g
    /\ snapshots = 0
    /\ lastOp = "Mycelia"
    /\ lastArg = <<>>
    /\ out = NoOut

\* A graph to pick in, loaded and framed.
InitPick ==
    \E gr \in {x \in PickGraphs : DOMAIN x.pos = SeqSet(x.nodes)},
       r \in PickRadii :
        InitWith([Constructed EXCEPT !.g = gr, !.gCopy = gr, !.nodeRadius = r])

\* Node radii to draw edges with: none, and some that leave an edge of
\* length 1 room for one arrow, for two, for none.
EdgeRadii == {0, 20, 40, 120}

\* A graph to draw edges of, loaded, framed and recentred.
InitEdge ==
    \E gr \in DrawGraphs, r \in EdgeRadii :
        InitWith([Constructed EXCEPT !.g = gr, !.gCopy = gr, !.nodeRadius = r])

\* Graphs whose second node is what is left of a larger graph after its
\* other nodes were deleted: node 0 and a node with a small index, with the
\* last index of the table drawn, or with the first index past it.
HighNodeIds == {1, DrawnSize - 1, DrawnSize}
HighGraphsOf(k) ==
    {[nodes |-> <<0, k>>, pos |-> [n \in {0, k} |-> <<n, 0, 0>>],
      types |-> [n \in {0, k} |-> "shape"], mode |-> "rotate",
      edges |-> es, version |-> 2 + k + Len(es)] :
        es \in UNION {[1..n -> {e \in [source : {0, k}, target : {0, k}] :
                                  e.source # e.target}] : n \in 0..MaxEdges}}
HighGraphs == UNION {HighGraphsOf(k) : k \in HighNodeIds}

\* One of them loaded and framed, bundled or not.
InitHigh ==
    \E gr \in HighGraphs, bundle \in BOOLEAN :
        InitWith(setToggle([Constructed EXCEPT !.g = gr, !.gCopy = gr],
                           "bundleButton", bundle))

\* A graph to draw, loaded and framed.
InitDraw ==
    \E gr \in DrawGraphs :
        InitWith([Constructed EXCEPT !.g = gr, !.gCopy = gr])

\* MyceliaDataItem (dataitem.hpp) is not part of the sources: the cache
\* starts with a version no graph has, or with that of the empty graph.
Init == \E v \in {-1, 0} : InitWith([Constructed EXCEPT !.graphListVersion = v])

(***************************************************************************)
(* Actions.  Vrui runs the callbacks of a pass of its main loop, then     *)
(* frame(), then display(): pcFrame is "idle" while callbacks run and      *)
(* "framed" from frame() until the next callback.  A handler runs while no *)
(* worker is inside a mutation.                                            *)
(***************************************************************************)
MainIdle ==
    /\ pcFrame \in {"idle", "framed"}
    /\ pcWorker = "idle"
    /\ lockHolder = "none"

Step(op, arg, m, result) ==
    /\ MainIdle
    /\ m.g.version <= MaxVersion
    /\ Becomes(m)
    /\ Ran(op, arg, result)
    /\ committed' = m.g
    /\ UNCHANGED <<lockHolder, pcWorker, pending, snapshots>>

\* A callback on the main thread.
Do(op, arg, m, result) == Step(op, arg, m, result) /\ pcFrame' = "idle"

\* A call outside the callbacks of a pass of the main loop.
Background(op, arg, m, result) ==
    Step(op, arg, m, result) /\ UNCHANGED pcFrame

\* A whole step of a worker thread, whatever the main thread is doing.
Worker(op, arg, m, result) ==
    /\ pcWorker = "idle"
    /\ lockHolder = "none"
    /\ m.g.version <= MaxVersion
    /\ Becomes(m)
    /\ Ran(op, arg, result)
    /\ committed' = m.g
    /\ UNCHANGED <<lockHolder, pcFrame, pcWorker, pending, snapshots>>

StartLayout ==
    Do("startLayout", <<>>, startLayout(This),
       [kind |-> "start", wasRunning |-> ~layoutIsStopped(This)])

StopLayout == Do("stopLayout", <<>>, stopLayout(This), NoOut)

ResumeLayout == Do("resumeLayout", <<>>, resumeLayout(This), NoOut)

SetLayoutType ==
    \E type \in {"LAYOUT_STATIC", "LAYOUT_DYNAMIC"} :
        Do("setLayoutType", <<type>>, setLayoutType(This, type), NoOut)

SetSkipLayout ==
    \E b \in BOOLEAN : Do("setSkipLayout", <<b>>, setSkipLayout(This, b), NoOut)

ResetLayout ==
    \E watch \in BOOLEAN, newPos \in PositionsOf(g) :
        Do("resetLayout", <<watch>>, resetLayout(This, watch, newPos), NoOut)

\* A click on staticButton or dynamicButton: the radio box takes the new
\* selection and calls resetLayoutCallback.
LayoutRadioClick ==
    \E static \in BOOLEAN, newPos \in PositionsOf(g) :
        Do("resetLayoutCallback", <<static>>,
           resetLayoutCallback(setToggle(This, "staticButton", static), newPos),
           NoOut)

ResetNavigationCallback ==
    Do("resetNavigationCallback", <<>>, resetNavigationCallback(This),
       [kind |-> "navigation", wasRunning |-> ~layoutIsStopped(This),
        radius |-> navigationRadius(resetNavigationCallback(This))])

\* A click on bundleButton: the button flips and calls bundleCallback.
BundleClick ==
    LET set == ~toggle["bundleButton"]
    IN Do("bundleCallback", <<set>>,
          bundleCallback(setToggle(This, "bundleButton", set), set), NoOut)

ClearCallback == Do("clearCallback", <<>>, clearCallback(This), NoOut)

\* A click on componentButton; P are the positions randomizePositions draws
\* from.
ComponentClickAt(P) ==
    LET set == ~toggle["componentButton"]
    IN \E newPos \in [NodeSet(g) -> P] :
        Do("componentCallback", <<set>>,
           componentCallback(setToggle(This, "componentButton", set), set,
                             newPos), NoOut)

ComponentClick == ComponentClickAt(PosSet)

GeneratorCallback ==
    \E count \in 1..MaxNodes, withEdges \in BOOLEAN :
        \E genPos \in GenPositions(count) :
            Do("generatorCallback", <<count, withEdges>>,
               generatorCallback(This, count, genPos, withEdges), NoOut)

\* What a handler may get from g->getShortestPath() or g->getSpanningTree():
\* nothing new when it does not call it.
PredChoices(called) ==
    IF called THEN PredecessorArrays(g) ELSE {predecessorVector}

ShortestPathClick ==
    LET set == ~toggle["shortestPathButton"]
    IN \E pred \in PredChoices(set /\ previousNode # SELECTION_NONE
                                   /\ selectedNode # SELECTION_NONE) :
        Do("shortestPathCallback", <<set>>,
           shortestPathCallback(setToggle(This, "shortestPathButton", set),
                                pred), NoOut)

SpanningTreeClick ==
    LET set == ~toggle["spanningTreeButton"]
    IN \E pred \in PredChoices(set) :
        Do("spanningTreeCallback", <<set>>,
           spanningTreeCallback(setToggle(This, "spanningTreeButton", set),
                                set, pred), NoOut)

SetSelectedNode ==
    \E node \in NodeArgs :
      \E pred \in PredChoices(isValidNode(g, node)
                               /\ toggle["shortestPathButton"]
                               /\ selectedNode # SELECTION_NONE) :
        Do("setSelectedNode", <<node>>, setSelectedNode(This, node, pred),
           NoOut)

ClearSelections == Do("clearSelections", <<>>, clearSelections(This), NoOut)

\* The graph builder tool and the parsers: Graph's mutation surface.
AddNodeAt(P) ==
    /\ getNodeCount(g) < MaxNodes
    /\ \E p \in P :
           Do("addNode", <<p>>, [This EXCEPT !.g = addNode(g, p)], NoOut)

AddNode == AddNodeAt(PosSet)

\* A loader adds a node of either type, or sets the texture node mode.
AddNodeOfType ==
    /\ getNodeCount(g) < MaxNodes
    /\ \E type \in NodeTypes :
           Do("addNode", <<Origin, type>>,
              [This EXCEPT !.g = addNodeOfType(g, Origin, type)], NoOut)

SetTextureNodeMode ==
    \E mode \in TextureNodeModes \ {getTextureNodeMode(g)} :
        Do("setTextureNodeMode", <<mode>>,
           [This EXCEPT !.g = setTextureNodeMode(g, mode)], NoOut)

AddEdge ==
    \E s \in NodeSet(g), d \in NodeSet(g) :
        /\ s # d
        /\ Len(g.edges) < MaxNodes
        /\ Do("addEdge", <<s, d>>, [This EXCEPT !.g = addEdge(g, s, d)], NoOut)

DeleteNode ==
    \E n \in NodeSet(g) :
        Do("deleteNode", <<n>>, [This EXCEPT !.g = deleteNode(g, n)], NoOut)

Display ==
    /\ pcFrame = "framed"
    /\ \E junk \in JunkFor(This) :
           Background("display", <<>>, display(This, junk)[1],
                      display(This, junk)[2])

\* frame() as one step: the lock is free between two mutations.
Frame ==
    /\ MainIdle
    /\ LockFree(lockHolder)
    /\ Becomes(frame(This))
    /\ Ran("frame", <<>>, NoOut)
    /\ pcFrame' = "framed"
    /\ snapshots' = 1
    /\ UNCHANGED <<lockHolder, pcWorker, pending, committed>>

(***************************************************************************)
(* The background workers, one whole mutation per step.                    *)
(***************************************************************************)
\* One iteration of a Running layout: every node gets a new position.
LayoutStep ==
    /\ running[layout]
    /\ g.nodes # <<>>
    /\ \E newPos \in PositionsOf(g) :
           Worker("layoutStep", <<layout>>,
              [This EXCEPT !.g = setPositions(g, newPos)], NoOut)

\* The static layout has converged: it is Stopped and the camera recentred.
StaticFinish ==
    /\ running["staticLayout"]
    /\ Worker("layoutFinished", <<>>,
          resetNavigationCallback(stop(This, "staticLayout")), NoOut)

\* The same in two steps: the static layout leaves its loop, then calls
\* resetNavigationCallback on its own thread.
StaticConverged ==
    /\ running["staticLayout"]
    /\ pcWorker = "idle"
    /\ lockHolder = "none"
    /\ Becomes(converge(This, "staticLayout"))
    /\ pcWorker' = "recenter"
    /\ UNCHANGED <<lockHolder, pcFrame, pending, committed, snapshots,
                   lastOp, lastArg, out>>

StaticRecenter ==
    /\ pcWorker = "recenter"
    /\ stopReturnsOnOwnThread(This, "staticLayout")
    /\ Becomes(resetNavigationCallback(stop(This, "staticLayout")))
    /\ Ran("layoutFinished", <<>>, NoOut)
    /\ pcWorker' = "idle"
    /\ committed' = g'
    /\ UNCHANGED <<lockHolder, pcFrame, pending, snapshots>>

\* The edge bundler has new segments to show.
BundlerStep ==
    /\ running["edgeBundler"]
    /\ Worker("bundlerStep", <<>>, [This EXCEPT !.g = update(g)], NoOut)

(***************************************************************************)
(* frame() and a mutation of a background thread step by step: frame()     *)
(* locks, copies and unlocks; the mutator locks, makes its writes one by   *)
(* one and unlocks.                                                        *)
(***************************************************************************)
ObjectUnchanged == UNCHANGED <<g, gCopy, layout, running, threads,
                               skipLayout, toggle,
                               nodeRadius, showingLogo, selectedNode,
                               previousNode, predecessorVector,
                               graphListVersion, graphList>>

\* g->lock()
FrameLock ==
    /\ pcFrame \in {"idle", "framed"}
    /\ LockFree(lockHolder)
    /\ lockHolder' = "frame"
    /\ pcFrame' = "copy"
    /\ snapshots' = 0
    /\ ObjectUnchanged
    /\ UNCHANGED <<pcWorker, pending, committed, lastOp, lastArg, out>>

\* *gCopy = *g
FrameCopy ==
    /\ pcFrame = "copy"
    /\ Becomes(frameCopy(This))
    /\ pcFrame' = "unlock"
    /\ snapshots' = snapshots + 1
    /\ UNCHANGED <<lockHolder, pcWorker, pending, committed, lastOp, lastArg,
                   out>>

\* *gCopy = *g fails (the copy of the containers cannot allocate): the
\* exception leaves frame() past g->unlock(), the snapshot is left as it was.
FrameCopyFails ==
    /\ pcFrame = "copy"
    /\ pcFrame' = "idle"
    /\ Ran("frame", <<>>, [kind |-> "error"])
    /\ ObjectUnchanged
    /\ UNCHANGED <<lockHolder, pcWorker, pending, committed, snapshots>>

\* g->unlock() and the rest of frame()
FrameUnlock ==
    /\ pcFrame = "unlock"
    /\ Becomes(frameLogo(This))
    /\ Ran("frame", <<>>, NoOut)
    /\ lockHolder' = "none"
    /\ pcFrame' = "framed"
    /\ UNCHANGED <<pcWorker, pending, committed, snapshots>>

\* The mutations background threads make: a layout iteration, and the
\* edits of a graph that is being loaded or built.
Mutations ==
    {positionWrites(g, newPos, g.nodes) :
        newPos \in IF g.nodes = <<>> THEN {} ELSE PositionsOf(g)}
    \cup {deleteNodeWrites(g, n, nodeFirst) :
            n \in NodeSet(g), nodeFirst \in BOOLEAN}
    \cup {<<addEdge(g, s, d)>> :
            s \in NodeSet(g),
            d \in IF Len(g.edges) < MaxNodes THEN NodeSet(g) ELSE {}}
    \cup {<<addNode(g, p)>> :
            p \in IF getNodeCount(g) < MaxNodes THEN {Origin} ELSE {}}

MutatorLock ==
    /\ pcWorker = "idle"
    /\ MutatorMayLock(lockHolder)
    /\ g.version < Constructed.g.version + MaxMutations
    /\ \E writes \in Mutations : pending' = writes
    /\ lockHolder' = "worker"
    /\ pcWorker' = "writing"
    /\ ObjectUnchanged
    /\ UNCHANGED <<pcFrame, committed, snapshots, lastOp, lastArg, out>>

\* The iterations the Running workers can make next: new positions from
\* the current layout, new segments from the bundler.
WorkerIterations ==
    (IF running[layout] /\ g.nodes # <<>>
     THEN {positionWrites(g, newPos, g.nodes) : newPos \in PositionsOf(g)}
     ELSE {})
    \cup (IF running["edgeBundler"] THEN {<<update(g)>>} ELSE {})

\* A Running worker takes the lock to commit an iteration.
WorkerLock ==
    /\ pcWorker = "idle"
    /\ MutatorMayLock(lockHolder)
    /\ g.version <= MaxVersion
    /\ \E writes \in WorkerIterations : pending' = writes
    /\ lockHolder' = "worker"
    /\ pcWorker' = "writing"
    /\ ObjectUnchanged
    /\ UNCHANGED <<pcFrame, committed, snapshots, lastOp, lastArg, out>>

MutatorWrite ==
    /\ pcWorker = "writing"
    /\ pending # <<>>
    /\ Becomes([This EXCEPT !.g = Head(pending)])
    /\ pending' = Tail(pending)
    /\ UNCHANGED <<lockHolder, pcFrame, pcWorker, committed, snapshots,
                   lastOp, lastArg, out>>

MutatorUnlock ==
    /\ pcWorker = "writing"
    /\ pending = <<>>
    /\ lockHolder' = "none"
    /\ pcWorker' = "idle"
    /\ committed' = g
    /\ Ran("mutation", <<>>, NoOut)
    /\ ObjectUnchanged
    /\ UNCHANGED <<pcFrame, pending, snapshots>>

(***************************************************************************)
(* resetLayout step by step, the workers running alongside: the stops and  *)
(* the choice of the layout, the new positions, the start.                 *)
(***************************************************************************)
ThreadsUnchanged == UNCHANGED <<lockHolder, pcWorker, pending, snapshots>>

ResetStop ==
    /\ MainIdle
    /\ g.version <= MaxVersion
    /\ Becomes(resetLayoutStop(This))
    /\ committed' = g
    /\ ThreadsUnchanged
    /\ IF resetLayoutAborts(resetLayoutStop(This))
       THEN /\ pcFrame' = "idle"
            /\ Ran("resetLayout", <<>>, NoOut)
       ELSE /\ pcFrame' = "randomize"
            /\ UNCHANGED <<lastOp, lastArg, out>>

ResetRandomize ==
    /\ pcFrame = "randomize"
    /\ \E newPos \in [NodeSet(g) -> RandomPos] :
           Becomes(resetLayoutRandomize(This, newPos))
    /\ committed' = g'
    /\ pcFrame' = "start"
    /\ ThreadsUnchanged
    /\ UNCHANGED <<lastOp, lastArg, out>>

ResetStart ==
    /\ pcFrame = "start"
    /\ \E watch \in BOOLEAN :
           /\ Becomes(resetLayoutStart(This, watch))
           /\ Ran("resetLayout", <<watch>>, NoOut)
    /\ committed' = g'
    /\ pcFrame' = "idle"
    /\ ThreadsUnchanged

(***************************************************************************)
(* The pick and draw functions on their own.                               *)
(***************************************************************************)
SelectNodePointAt(P) ==
    \E click \in P :
        Do("selectNode", <<click>>, This,
           [kind |-> "pick", result |-> selectNodePoint(This, click)])

SelectNodeRayAt(P, D) ==
    \E origin \in P, direction \in D :
        Do("selectNodeRay", <<origin, direction>>, This,
           [kind |-> "pick", result |-> selectNodeRay(This, origin, direction)])

DrawEdges ==
    Background("drawEdges", <<>>, This,
               [kind |-> "edges", prims |-> drawEdges(This, IdJunk).prims])

\* drawEdges, with the entries of its table drawn that it reads or writes.
DrawEdgesTable ==
    /\ MainIdle
    /\ ObjectUnchanged
    /\ Ran("drawEdgesTable", <<>>,
           [kind |-> "table", prims |-> drawEdges(This, IdJunk).prims,
            idx |-> drawEdges(This, IdJunk).idx])
    /\ UNCHANGED <<lockHolder, pcFrame, pcWorker, pending, committed,
                   snapshots>>

DrawEdge ==
    \E i \in DOMAIN gCopy.edges :
        Background("drawEdge", <<i>>, This,
                   [kind |-> "edge", edge |-> drawEdge(This, gCopy.edges[i])])

DrawEdgeSegment ==
    \E i \in DOMAIN gCopy.edges :
        Background("drawEdgeSegment", <<i>>, This,
                   [kind |-> "edge",
                    edge |-> drawEdgeSegment(This, gCopy.edges[i])])

Next ==
    \/ StartLayout \/ StopLayout \/ ResumeLayout \/ SetLayoutType
    \/ SetSkipLayout \/ ResetLayout \/ LayoutRadioClick \/ ResetNavigationCallback
    \/ BundleClick \/ ClearCallback \/ ComponentClick \/ GeneratorCallback
    \/ ShortestPathClick \/ SpanningTreeClick \/ SetSelectedNode
    \/ ClearSelections \/ AddNode \/ AddEdge \/ DeleteNode
    \/ SelectNodePointAt(PosSet) \/ SelectNodeRayAt({Origin}, RayDirections)
    \/ Display \/ FrameLock \/ FrameCopy \/ FrameUnlock
    \/ MutatorLock \/ MutatorWrite \/ MutatorUnlock
    \/ LayoutStep \/ StaticFinish \/ BundlerStep
    \/ StaticConverged \/ StaticRecenter \/ FrameCopyFails
    \/ AddNodeOfType \/ SetTextureNodeMode \/ WorkerLock
    \/ ResetStop \/ ResetRandomize \/ ResetStart \/ DrawEdges

Spec == Init /\ [][Next]_vars

(***************************************************************************)
(* The layout lifecycle: the public layout operations and the workers.     *)
(***************************************************************************)
NextLayout ==
    \/ StartLayout \/ StopLayout \/ ResumeLayout \/ SetLayoutType
    \/ ResetLayout \/ ResetNavigationCallback \/ BundleClick
    \/ GeneratorCallback \/ LayoutStep \/ StaticFinish \/ BundlerStep

SpecLayout == Init /\ [][NextLayout]_vars

(***************************************************************************)
(* Rendering: graph edits, selection and overlays between frames.          *)
(***************************************************************************)
NextRender ==
    \/ AddNodeAt({Origin}) \/ DeleteNode \/ ClearCallback \/ SetSelectedNode
    \/ ShortestPathClick \/ SpanningTreeClick \/ Frame \/ Display

SpecRender == Init /\ [][NextRender]_vars

(***************************************************************************)
(* The logo: graphs filled and emptied between frames.                     *)
(***************************************************************************)
NextLogo ==
    \/ AddNodeAt({Origin}) \/ DeleteNode \/ ClearCallback \/ Frame
    \/ Display

SpecLogo == Init /\ [][NextLogo]_vars

(***************************************************************************)
(* Rendering while the edge bundler runs.                                  *)
(***************************************************************************)
NextBundle ==
    \/ AddNodeAt({Origin}) \/ AddEdge \/ BundleClick \/ BundlerStep
    \/ Frame \/ Display

SpecBundle == Init /\ [][NextBundle]_vars

(***************************************************************************)
(* Rendering shape and image nodes in both texture node modes.             *)
(***************************************************************************)
TextureEdit ==
    /\ g.version < Constructed.g.version + MaxTextureEdits
    /\ \/ AddNodeOfType \/ AddEdge \/ SetTextureNodeMode \/ SetSelectedNode
       \/ ComponentClickAt({Origin})

NextTexture == TextureEdit \/ Frame \/ Display

SpecTexture == Init /\ [][NextTexture]_vars

(***************************************************************************)
(* Picking while a layout moves the nodes.                                 *)
(***************************************************************************)
NextPick ==
    \/ AddNode \/ ResetNavigationCallback \/ StartLayout \/ LayoutStep
    \/ Frame \/ SelectNodePointAt(PosSet)
    \/ SelectNodeRayAt({Origin}, {<<1, 0, 0>>})

SpecPick == Init /\ [][NextPick]_vars

(***************************************************************************)
(* The selection: setSelectedNode on valid and invalid nodes.              *)
(***************************************************************************)
NextSelection ==
    \/ AddNodeAt({Origin}) \/ DeleteNode \/ SetSelectedNode
    \/ ClearSelections \/ ShortestPathClick

SpecSelection == Init /\ [][NextSelection]_vars

(***************************************************************************)
(* The render cache: graph edits between frames and displays.              *)
(***************************************************************************)
NextCache ==
    \/ AddNodeAt({Origin}) \/ DeleteNode \/ ClearCallback \/ SetSelectedNode
    \/ Frame \/ Display

SpecCache == Init /\ [][NextCache]_vars

(***************************************************************************)
(* frame() against the mutations of a background thread.                   *)
(***************************************************************************)
NextSnapshot ==
    \/ FrameLock \/ FrameCopy \/ FrameUnlock
    \/ MutatorLock \/ MutatorWrite \/ MutatorUnlock

SpecSnapshot == Init /\ [][NextSnapshot]_vars

\* The same with copies that fail.
NextCopyFails == NextSnapshot \/ FrameCopyFails

SpecCopyFails == Init /\ [][NextCopyFails]_vars

(***************************************************************************)
(* selectNode on every graph of PickGraphs.                                *)
(***************************************************************************)
NextPickFn ==
    \/ SelectNodePointAt(PickClicks)
    \/ SelectNodeRayAt(PickOrigins, RayDirections)

SpecPickFn == InitPick /\ [][NextPickFn]_vars

(***************************************************************************)
(* drawEdges on every graph of DrawGraphs.                                 *)
(***************************************************************************)
NextDraw == DrawEdges

SpecDraw == InitDraw /\ [][NextDraw]_vars

(***************************************************************************)
(* drawEdges on graphs with high node indices.                             *)
(***************************************************************************)
NextHigh == DrawEdgesTable

SpecHigh == InitHigh /\ [][NextHigh]_vars

(***************************************************************************)
(* drawEdge on every edge of every graph of DrawGraphs.                    *)
(***************************************************************************)
NextEdge == DrawEdge \/ DrawEdgeSegment

SpecEdge == InitEdge /\ [][NextEdge]_vars

(***************************************************************************)
(* resetLayout while a layout or the bundler is at work.                   *)
(***************************************************************************)
NextReset ==
    \/ AddNodeAt({Origin}) \/ SetLayoutType \/ StartLayout \/ BundleClick
    \/ ResetStop \/ ResetRandomize \/ ResetStart
    \/ LayoutStep \/ StaticFinish \/ BundlerStep

SpecReset == Init /\ [][NextReset]_vars

(***************************************************************************)
(* Layouts of graphs with and without explicit positions (skipLayout).     *)
(***************************************************************************)
NextSkip ==
    \/ AddNodeAt({Origin}) \/ SetSkipLayout \/ SetLayoutType \/ StartLayout
    \/ BundleClick \/ ResetLayout \/ ResumeLayout \/ LayoutStep
    \/ ResetNavigationCallback

SpecSkip == Init /\ [][NextSkip]_vars

(***************************************************************************)
(* stopLayout while a worker commits its iterations write by write.        *)
(***************************************************************************)
NextStop ==
    \/ AddNodeAt({Origin}) \/ SetLayoutType \/ StartLayout \/ BundleClick
    \/ StopLayout \/ ResetStop \/ ResetRandomize \/ ResetStart
    \/ WorkerLock \/ MutatorWrite \/ MutatorUnlock

SpecStop == Init /\ [][NextStop]_vars

(***************************************************************************)
(* The layouts running to their end: the static layout is scheduled until  *)
(* it has converged and recentred the camera.                              *)
(***************************************************************************)
NextFinish ==
    \/ AddNodeAt({Origin}) \/ SetLayoutType \/ StartLayout \/ StopLayout
    \/ ResetLayout \/ LayoutStep \/ StaticConverged \/ StaticRecenter

\* StaticRecenter can be taken exactly in these states.
RecenterCanReturn ==
    /\ pcWorker = "recenter"
    /\ stopReturnsOnOwnThread(This, "staticLayout")

\* Weak fairness of both steps of the static layout's thread; for
\* StaticRecenter, which leaves RecenterCanReturn whenever it is taken, it
\* is written out as "not enabled for ever".
SpecFinish ==
    /\ Init
    /\ [][NextFinish]_vars
    /\ WF_vars(StaticConverged)
    /\ []<>(~RecenterCanReturn)

(***************************************************************************)
(* Properties.                                                             *)
(***************************************************************************)
RunningWorkers == {w \in Workers : running[w]}

\* C1: after any sequence of the public layout operations at most one of
\* staticLayout, dynamicLayout and edgeBundler is Running.
C1_AtMostOneRunning == Cardinality(RunningWorkers) <= 1

\* C3: a display() with the logo not showing rebuilds the cached geometry
\* iff graphListVersion differs from the snapshot's version, and leaves
\* graphListVersion equal to the snapshot's version; once they are equal
\* only a frame() can make them differ again, so that a further display()
\* without a frame() in between rebuilds nothing.
C3_Step ==
    /\ (lastOp' = "display" /\ ~showingLogo)
          => /\ out'.rebuilt <=> (graphListVersion # gCopy.version)
             /\ graphListVersion' = gCopy'.version
    /\ (graphListVersion = gCopy.version /\ lastOp' # "frame")
          => graphListVersion' = gCopy'.version
    /\ (lastOp = "display" /\ ~out.logo /\ lastOp' = "display")
          => ~out'.rebuilt

C3_RebuildIffVersionDiffers == [][C3_Step]_vars

\* C3 witness: a display() that reused the geometry an earlier display()
\* had rebuilt for a graph with nodes.
C3_Witness ==
    /\ lastOp = "display"
    /\ ~out.logo
    /\ ~out.rebuilt
    /\ graphListVersion = gCopy.version
    /\ gCopy.nodes # <<>>

\* C2: frame() makes exactly one copy per call, while it holds the lock
\* and no mutation is under way, so that the snapshot is g as the last
\* whole mutation left it; the snapshot changes in no other step, and
\* every edge of the snapshot joins two nodes of the snapshot.
C2_Step ==
    /\ (pcFrame = "copy" /\ pcFrame' = "unlock")
          => /\ lockHolder = "frame"
             /\ pcWorker = "idle"
             /\ gCopy' = committed
    /\ gCopy' # gCopy => (pcFrame = "copy" /\ pcFrame' = "unlock")
    /\ (pcFrame = "unlock" /\ pcFrame' = "framed") => snapshots' = 1

C2_SnapshotIsWholeMutation ==
    /\ [](\A i \in DOMAIN gCopy.edges :
             /\ gCopy.edges[i].source \in NodeSet(gCopy)
             /\ gCopy.edges[i].target \in NodeSet(gCopy))
    /\ [][C2_Step]_vars

\* C2 witness: frame() has returned with a snapshot that has an edge, and
\* a mutator is now half way through deleting a node: g has an edge
\* without its node, the snapshot is still the last whole graph.
C2_Witness ==
    /\ lastOp = "frame"
    /\ pcFrame = "framed"
    /\ pcWorker = "writing"
    /\ gCopy.edges # <<>>
    /\ gCopy = committed
    /\ \E i \in DOMAIN g.edges : g.edges[i].source \notin NodeSet(g)

\* The edges from s to t, and the primitives drawn from s to t.
EdgesFromTo(gr, s, t) ==
    {i \in DOMAIN gr.edges : gr.edges[i].source = s /\ gr.edges[i].target = t}

PrimsFromTo(prims, s, t) ==
    {k \in DOMAIN prims : prims[k].source = s /\ prims[k].target = t}

First(S) == CHOOSE i \in S : \A j \in S : i <= j

StraightAllVisible == ~toggle["bundleButton"] /\ ~toggle["componentButton"]

IndexIn(s, n) == CHOOSE i \in DOMAIN s : s[i] = n

\* The node selectNode(point) has to return for the graph gr.
WithinRadius(gr, click, n) ==
    NodeRadiusDiv * NodeRadiusDiv * SqrDist(click, gr.pos[n])
        < nodeRadius * nodeRadius

IsNearest(gr, click, r) ==
    IF r = SELECTION_NONE
    THEN \A n \in NodeSet(gr) : ~WithinRadius(gr, click, n)
    ELSE /\ r \in NodeSet(gr)
         /\ WithinRadius(gr, click, r)
         /\ \A n \in NodeSet(gr) :
                SqrDist(click, gr.pos[r]) <= SqrDist(click, gr.pos[n])

\* C5: selectNode(point) returns the node of g nearest to the query point
\* if that node is strictly nearer than nodeRadius, the first such node in
\* g's node order among equally near ones, and SELECTION_NONE if no node
\* is that near.
C5_PointPickNearest ==
    lastOp = "selectNode"
        => /\ IsNearest(g, lastArg[1], out.result)
           /\ out.result # SELECTION_NONE
                 => \A n \in NodeSet(g) :
                       SqrDist(lastArg[1], g.pos[n])
                             = SqrDist(lastArg[1], g.pos[out.result])
                          => IndexIn(g.nodes, out.result) <= IndexIn(g.nodes, n)

\* C5 witness: two nodes as far from the query point as each other and
\* nearer than nodeRadius, the node with the higher index enumerated
\* first and returned.
C5_Witness ==
    /\ lastOp = "selectNode"
    /\ g.nodes = <<1, 0>>
    /\ g.pos[0] # g.pos[1]
    /\ SqrDist(lastArg[1], g.pos[0]) = SqrDist(lastArg[1], g.pos[1])
    /\ out.result = 1

\* The forward projection of node n onto the ray and its squared
\* perpendicular offset.
RayX(gr, origin, direction, n) == VDot(VSub(gr.pos[n], origin), direction)

RayY2(gr, origin, direction, n) ==
    VSqr(VCross(VSub(gr.pos[n], origin), direction))

\* x >= 0 and y2 / x^2 at most coneAngle^2: no quotient at x = 0.
RayCandidates(gr, origin, direction) ==
    {n \in NodeSet(gr) :
        /\ RayX(gr, origin, direction, n) > 0
        /\ ConeAngleInv * ConeAngleInv * RayY2(gr, origin, direction, n)
              <= RayX(gr, origin, direction, n) * RayX(gr, origin, direction, n)}

IsNearestOnRay(gr, origin, direction, r) ==
    IF r = SELECTION_NONE
    THEN RayCandidates(gr, origin, direction) = {}
    ELSE /\ r \in RayCandidates(gr, origin, direction)
         /\ \A n \in RayCandidates(gr, origin, direction) :
                RayX(gr, origin, direction, r) <= RayX(gr, origin, direction, n)

\* C6: selectNode(ray) returns a candidate with the smallest forward
\* projection x, in whatever order the nodes are enumerated, and
\* SELECTION_NONE when there is no candidate; a node at the ray's origin
\* is none.
C6_RayPickNearestCandidate ==
    lastOp = "selectNodeRay"
        => /\ IsNearestOnRay(g, lastArg[1], lastArg[2], out.result)
           /\ out.result # SELECTION_NONE
                 => g.pos[out.result] # lastArg[1]

\* C6 witness: two candidates on the ray, the farther one enumerated
\* first, the nearer one returned.
C6_Witness ==
    /\ lastOp = "selectNodeRay"
    /\ Len(g.nodes) = 2
    /\ SeqSet(g.nodes) = RayCandidates(g, lastArg[1], lastArg[2])
    /\ RayX(g, lastArg[1], lastArg[2], g.nodes[2])
          < RayX(g, lastArg[1], lastArg[2], g.nodes[1])
    /\ out.result = g.nodes[2]

\* C7: selectNode decides on the live graph g, also when a worker has
\* moved a node since the last frame(), and leaves g, gCopy, selectedNode
\* and previousNode unchanged.
C7_Step ==
    /\ lastOp' = "selectNode"
          => /\ IsNearest(g, lastArg'[1], out'.result)
             /\ UNCHANGED <<g, gCopy, selectedNode, previousNode>>
    /\ lastOp' = "selectNodeRay"
          => /\ IsNearestOnRay(g, lastArg'[1], lastArg'[2], out'.result)
             /\ UNCHANGED <<g, gCopy, selectedNode, previousNode>>

C7_PickReadsLiveGraph == [][C7_Step]_vars

\* C7 witness: a pick that returned a node at the position a worker gave it
\* after the last frame(), where the snapshot still has it elsewhere.
C7_Witness ==
    /\ lastOp = "selectNode"
    /\ out.result # SELECTION_NONE
    /\ out.result \in NodeSet(gCopy)
    /\ g.pos[out.result] = lastArg[1]
    /\ gCopy.pos[out.result] # lastArg[1]
    /\ running[layout]

\* C8: setSelectedNode(n) with n not a node of g changes neither
\* selectedNode, previousNode, predecessorVector, the shortest-path toggle
\* nor g's version.
C8_Step ==
    (lastOp' = "setSelectedNode" /\ ~isValidNode(g, lastArg'[1]))
        => /\ UNCHANGED <<selectedNode, previousNode, predecessorVector>>
           /\ toggle'["shortestPathButton"] = toggle["shortestPathButton"]
           /\ g'.version = g.version

C8_InvalidSelectionIsNoOp == [][C8_Step]_vars

\* C8 witness: setSelectedNode was called with an index that is no node of
\* the non-empty graph, while two nodes were selected and the
\* shortest-path toggle was on.
C8_Witness ==
    /\ lastOp = "setSelectedNode"
    /\ ~isValidNode(g, lastArg[1])
    /\ lastArg[1] # SELECTION_NONE
    /\ g.nodes # <<>>
    /\ selectedNode # SELECTION_NONE
    /\ previousNode # SELECTION_NONE
    /\ toggle["shortestPathButton"]

\* C9: every node index display() hands to the snapshot is a node of the
\* snapshot, and every read of predecessorVector is within its bounds.
C9_NoStaleIndexInRender ==
    lastOp = "display"
        => /\ out.refs \subseteq NodeSet(gCopy)
           /\ out.tree.reads \cup out.path.reads
                 \subseteq 0..(Len(predecessorVector) - 1)

\* C10: drawShortestPath and drawSpanningTree each end after at most as
\* many passes of their loop as predecessorVector has entries.
C10_OverlayWalkBounded ==
    lastOp = "display"
        => /\ out.tree.finished
           /\ out.tree.iterations <= Len(predecessorVector)
           /\ out.path.finished
           /\ out.path.iterations <= Len(predecessorVector)

\* The layout object a layout type stands for.
LayoutOfType(type) ==
    IF type = "LAYOUT_DYNAMIC" THEN "dynamicLayout" ELSE "staticLayout"

\* C11: when setLayoutType selects a layout type other than the current one
\* while the current layout is Running, the layout that was active is
\* Stopped on return and the newly selected layout is Running on return.
C11_Step ==
    (/\ lastOp' = "setLayoutType"
     /\ LayoutOfType(lastArg'[1]) # layout
     /\ running[layout])
        => /\ ~running'[layout]
           /\ running'[LayoutOfType(lastArg'[1])]

C11_SwitchStopsOldStartsNew == [][C11_Step]_vars

AllStopped(r) == \A w \in Workers : ~r[w]

InReset(pc) == pc \in {"randomize", "start"}

\* C12: resetLayout on a non-empty graph with skipLayout false first stops
\* every worker, then gives every node a drawn position, then starts the
\* layout the static/dynamic toggle selects: the workers are all Stopped
\* from the stops to the start, every step that changes g in between is
\* resetLayout's own, and on return the selected layout is Running and,
\* unless the camera was recentred, every position is a drawn one.
C12_Step ==
    /\ (~InReset(pcFrame) /\ pcFrame' = "randomize") => AllStopped(running')
    /\ InReset(pcFrame)
          => /\ AllStopped(running)
             /\ g' # g => pcFrame' # pcFrame
    /\ (pcFrame = "randomize" /\ pcFrame' = "start")
          => \A n \in NodeSet(g') : g'.pos[n] \in RandomPos
    /\ (pcFrame = "start" /\ pcFrame' = "idle")
          => /\ lastOp' = "resetLayout"
             /\ layout' = (IF toggle'["staticButton"]
                           THEN "staticLayout" ELSE "dynamicLayout")
             /\ running'[layout']
             /\ Cardinality({w \in Workers : running'[w]}) = 1
             /\ lastArg' = <<FALSE>>
                   => \A n \in NodeSet(g') : g'.pos[n] \in RandomPos

C12_ResetStopsRandomizesStarts == [][C12_Step]_vars

\* C12 witness: resetLayout(false) has returned on a graph of two nodes
\* with the dynamic layout Running, the bundler Stopped and both nodes at
\* drawn positions.
C12_Witness ==
    /\ lastOp = "resetLayout"
    /\ lastArg = <<FALSE>>
    /\ running["dynamicLayout"]
    /\ ~running["edgeBundler"]
    /\ Len(g.nodes) = 2
    /\ \A n \in NodeSet(g) : g.pos[n] \in RandomPos

\* C13: when stopLayout() returns every worker is Stopped and none holds
\* g's lock or is inside an iteration; while every worker is Stopped only
\* the main thread changes g, and the writes resetLayout makes after its
\* stops never meet a worker inside an iteration.
C13_Step ==
    /\ lastOp' = "stopLayout" /\ lastOp' # lastOp
          => /\ AllStopped(running')
             /\ lockHolder' # "worker"
             /\ pcWorker' = "idle"
    /\ (AllStopped(running) /\ pcWorker = "idle")
          => /\ pcWorker' = "idle"
             /\ lockHolder' # "worker"
    /\ InReset(pcFrame) => /\ pcWorker = "idle" /\ pcWorker' = "idle"
                           /\ lockHolder # "worker"

C13_StopLayoutLeavesNoWriter == [][C13_Step]_vars

\* C13 witness: stopLayout() has returned with every worker Stopped on a
\* graph of two nodes, one of which a layout iteration had moved.
C13_Witness ==
    /\ lastOp = "stopLayout"
    /\ AllStopped(running)
    /\ pcWorker = "idle"
    /\ lockHolder = "none"
    /\ Len(g.nodes) = 2
    /\ \E n \in NodeSet(g) : g.pos[n] \in PosSet \ {Origin}

\* C14: however often startLayout() is called, and also after
\* resetLayout(watch = true), a Running layout has exactly one worker
\* thread, and no worker ever has more than one.
C14_OneWorkerThread ==
    /\ \A w \in Workers : threads[w] = (IF running[w] THEN 1 ELSE 0)
    /\ lastOp \in {"startLayout", "resetLayout"} /\ running[layout]
          => threads[layout] = 1

\* C14 witness: startLayout() was called on a non-empty graph while the
\* dynamic layout was already Running.
C14_Witness ==
    /\ lastOp = "startLayout"
    /\ out.wasRunning
    /\ layout = "dynamicLayout"
    /\ g.nodes # <<>>
    /\ threads[layout] = 1

\* The handlers whose code stops the current layout.
StopCallers == {"stopLayout", "setLayoutType", "resetLayout",
                "resetNavigationCallback", "bundleCallback",
                "layoutFinished"}

\* C15: a Running static layout reaches Stopped, with the recentring it
\* asks for on completion done, without any stop call; a Running dynamic
\* layout stays Running in every step that calls no stop.
C15_DynamicStep ==
    (running["dynamicLayout"] /\ ~running'["dynamicLayout"])
        => lastOp' \in StopCallers /\ <<lastOp', lastArg', g'>> # <<lastOp, lastArg, g>>

C16_Step ==
    /\ g'.version >= g.version
    /\ (pcWorker = "writing" /\ pcWorker' = "idle")
          => committed'.version > committed.version
    /\ committed' # committed => committed'.version > committed.version
    /\ gCopy'.version >= gCopy.version
    /\ gCopy'.version = gCopy.version => gCopy' = gCopy

C17_LockReleasedAfterFrame ==
    pcFrame \notin {"copy", "unlock"} => lockHolder # "frame"

\* C18: display() reads the data of no worker that is Running: what it
\* draws comes from the snapshot alone, the segments of bundled edges
\* included.
C18_RenderReadsNoRunningWorker ==
    lastOp = "display" => \A w \in out.live : ~running[w]

\* C19: no overlay calls drawEdge with a node as both source and target.
C19_NoSelfEdgeInOverlay ==
    lastOp = "display"
        => \A e \in out.tree.edges \cup out.path.edges : e[1] # e[2]

\* How often node n is in the sequence s.
Count(s, n) == Cardinality({i \in DOMAIN s : s[i] = n})

\* The nodes of the snapshot that pass the selected component filter.
VisibleNode(n) == isSelectedComponent(This, n, IdJunk)

C21_CylinderAndArrow ==
    (lastOp \in {"drawEdge", "drawEdgeSegment"})
    => LET e == out.edge
           L == e.length
       IN /\ (e.arrow /\ ~e.bidirectional)
                => /\ e.cylinderFrom = 0
                   /\ e.cylinderTo = L - edgeOffset(This)
          /\ (e.arrow /\ e.bidirectional)
                => /\ e.cylinderFrom = edgeOffset(This)
                   /\ e.cylinderTo = L - edgeOffset(This)
          /\ e.arrow => e.arrowFrom = e.cylinderTo
          /\ ~e.arrow => e.cylinderFrom = 0 /\ e.cylinderTo = L

\* C21 witness: a bidirectional edge of length 2 drawn with a node radius
\* of a quarter: the cylinder is shortened by the same positive amount at
\* both ends.
C21_Witness ==
    /\ lastOp = "drawEdge"
    /\ out.edge.bidirectional
    /\ out.edge.length = 4 * NodeRadiusDiv
    /\ edgeOffset(This) > 0
    /\ out.edge.cylinderFrom = edgeOffset(This)
    /\ out.edge.cylinderFrom < out.edge.cylinderTo

\* C22: every entry of its table drawn that drawEdges reads or writes is an
\* entry of the table, whatever node indices the edges of the snapshot have.
C22_DedupTableInRange ==
    lastOp = "drawEdgesTable"
        => \A p \in out.idx : /\ p[1] \in 0..(DrawnSize - 1)
                              /\ p[2] \in 0..(DrawnSize - 1)

\* C23: from frame() on showingLogo is true exactly when the snapshot has no
\* nodes; a display() with showingLogo true draws the logo, neither rebuilds
\* nor calls the cached list, leaves the cache as it was and uses no node
\* index.
C23_Step ==
    (lastOp' = "display" /\ showingLogo)
        => /\ out'.logo
           /\ ~out'.rebuilt
           /\ ~out'.called
           /\ out'.refs = {}
           /\ out'.live = {}
           /\ out'.listNodes = <<>> /\ out'.liveNodes = <<>>
           /\ out'.tree = NoOverlay /\ out'.path = NoOverlay
           /\ graphListVersion' = graphListVersion
           /\ graphList' = graphList

C23_LogoIffEmptySnapshot ==
    /\ [](pcFrame = "framed" => (showingLogo <=> getNodeCount(gCopy) = 0))
    /\ [][C23_Step]_vars

\* C23 witness: a graph with a node was shown and cleared; after the next
\* frame() display() drew the logo although the cache is out of date.
C23_Witness ==
    /\ lastOp = "display"
    /\ showingLogo
    /\ out.logo
    /\ graphList # <<>>
    /\ graphListVersion # gCopy.version

\* C24: resetNavigationCallback on a graph without nodes sets no navigation
\* transformation of radius zero, leaves the graph without nodes and returns
\* with every worker Stopped.
C24_EmptyRecenterGraceful ==
    (lastOp = "resetNavigationCallback" /\ getNodeCount(g) = 0)
        => /\ out.radius # 0
           /\ g.nodes = <<>>
           /\ RunningWorkers = {}

\* C25: a resetLayout called with skipLayout true or with a graph without
\* nodes returns with every worker Stopped and the graph, its positions
\* included, as it was; a resumeLayout called with skipLayout true starts no
\* worker.
C25_Step ==
    /\ (lastOp' = "resetLayout" /\ (skipLayout \/ getNodeCount(g) = 0))
          => /\ \A w \in Workers : ~running'[w] /\ threads'[w] = 0
             /\ g' = g
    /\ (lastOp' = "resumeLayout" /\ skipLayout) => running' = running

C25_SkippedResetStartsNothing == [][C25_Step]_vars

\* C25 witness: resetLayout was called with skipLayout true on a graph of
\* two nodes whose dynamic layout was the current one; it returned with its
\* positions as a layout iteration left them and nothing Running.
C25_Witness ==
    /\ lastOp = "resetLayout"
    /\ skipLayout
    /\ Len(g.nodes) = 2
    /\ layout = "dynamicLayout"
    /\ \E n \in NodeSet(g) : g.pos[n] # Origin
    /\ RunningWorkers = {}

\* C26: resetNavigationCallback called with the dynamic layout current and
\* Running and skipLayout false returns with the dynamic layout, and no
\* other worker, Running; called in any other state it returns with all
\* three workers Stopped.  It never changes the current layout.
C26_Step ==
    lastOp' = "resetNavigationCallback"
        => /\ layout' = layout
           /\ IF /\ layout = "dynamicLayout"
                 /\ running["dynamicLayout"]
                 /\ ~skipLayout
              THEN \A w \in Workers : running'[w] <=> (w = "dynamicLayout")
              ELSE \A w \in Workers : ~running'[w]

NextToggle ==
    \/ AddNodeAt({Origin}) \/ SetSkipLayout \/ ComponentClickAt({Origin})
    \/ BundleClick \/ SetSelectedNode \/ ClearSelections
    \/ ResetNavigationCallback \/ Frame \/ Display

SpecToggle == Init /\ [][NextToggle]_vars

\* C27: every handler step that changes selectedNode, previousNode, the
\* node and edge sizes, the component-filter toggle or the bundle toggle
\* returns with g's version higher than it was on entry.
C27_Step ==
    \/ /\ UNCHANGED <<selectedNode, previousNode, nodeRadius>>
       /\ toggle'["componentButton"] = toggle["componentButton"]
       /\ toggle'["bundleButton"] = toggle["bundleButton"]
    \/ g'.version > g.version

C27_BakedInputChangeBumpsVersion == [][C27_Step]_vars

\* C28: setSelectedNode(n) with n a node of g returns with previousNode the
\* old selectedNode, selectedNode n and g's version bumped; when the
\* shortest-path toggle is on and both selections are set on return,
\* predecessorVector is a predecessor array of g computed for the new
\* previousNode.  clearSelections returns with both selections
\* SELECTION_NONE and g's version bumped.
C28_Step ==
    /\ (lastOp' = "setSelectedNode" /\ isValidNode(g, lastArg'[1]))
          => /\ previousNode' = selectedNode
             /\ selectedNode' = lastArg'[1]
             /\ g'.version = g.version + 1
             /\ (toggle["shortestPathButton"] /\ selectedNode # SELECTION_NONE)
                   => /\ predecessorVector' \in PredecessorArrays(g)
                      /\ (previousNode' + 1 \in DOMAIN predecessorVector')
                            => predecessorVector'[previousNode' + 1]
                                  = previousNode'
    /\ lastOp' = "clearSelections"
          => /\ previousNode' = SELECTION_NONE
             /\ selectedNode' = SELECTION_NONE
             /\ g'.version = g.version + 1

C28_SelectionUpdatesThenPath == [][C28_Step]_vars

\* C28 witness: with the shortest-path toggle on, setSelectedNode moved the
\* selection from one node to another, and predecessorVector is rooted at
\* the new previousNode and leads the new selectedNode to it.
C28_Witness ==
    /\ lastOp = "setSelectedNode"
    /\ toggle["shortestPathButton"]
    /\ selectedNode = lastArg[1]
    /\ previousNode # SELECTION_NONE
    /\ previousNode # selectedNode
    /\ Len(predecessorVector) = 2
    /\ predecessorVector[previousNode + 1] = previousNode
    /\ predecessorVector[selectedNode + 1] = previousNode

(***************************************************************************)
(* The generators, called in every state of the layouts and the bundler.   *)
(***************************************************************************)
NextGenerate ==
    \/ SetSkipLayout \/ SetLayoutType \/ StartLayout \/ BundleClick
    \/ GeneratorCallback \/ LayoutStep

SpecGenerate == Init /\ [][NextGenerate]_vars

\* C29: generatorCallback returns with the dynamic layout current and
\* Running, the bundle toggle off, and the edge bundler and the static
\* layout Stopped.
C29_Step ==
    lastOp' = "generatorCallback"
        => /\ layout' = "dynamicLayout"
           /\ ~toggle'["bundleButton"]
           /\ \A w \in Workers : running'[w] <=> (w = "dynamicLayout")

C30_BundlingImpliesBundlerRan ==
    (toggle["bundleButton"] /\ g.edges # <<>>) => running["edgeBundler"]

====
